---- MODULE Spec2Model ----
(***************************************************************************)
(* Model of scripts/convert-to-pptx/convert-to-pptx.py: the batch          *)
(* orchestrator convert_directory, the per-file converter                  *)
(* convert_single_file and the two conversion backends.                    *)
(***************************************************************************)
EXTENDS Integers, Sequences, FiniteSets, TLC

\* ------------------------------------------------------------------ bounds
\* Largest --workers value explored (the smallest is -1).
MaxWorkers == 2
\* Number of consecutive convert_directory calls on the same directory.
MaxRuns == 2

\* ------------------------------------------------------------------- paths
\* A path is [dir, stem, ext]; ext is the suffix as a sequence of characters
\* (with its dot), so that lower-casing is computed character by character.
Top == "D"
Sub == "D/S"

ExtPpt == <<".", "p", "p", "t">>
ExtPptUpper == <<".", "P", "P", "T">>
ExtPptMixed == <<".", "P", "p", "t">>
ExtPptx == <<".", "p", "p", "t", "x">>
ExtPptxUpper == <<".", "P", "P", "T", "X">>
ExtTxt == <<".", "t", "x", "t">>
ExtNone == << >>

Path(d, s, e) == [dir |-> d, stem |-> s, ext |-> e]

\* The value None of an absent output path.
NoPath == Path("", "", ExtNone)

\* str.lower() on one character.
LowerChar(c) ==
    CASE c = "P" -> "p"
      [] c = "T" -> "t"
      [] c = "X" -> "x"
      [] OTHER -> c

\* str.lower() on a suffix.
Lower(e) == [i \in 1..Len(e) |-> LowerChar(e[i])]

\* Path.with_suffix('.pptx'): same directory and stem, the suffix replaced.
WithSuffixPptx(p) == Path(p.dir, p.stem, ExtPptx)

\* The files a batch directory may hold: the candidates and their outputs,
\* next to one unrelated file.
BatchInputs ==
    {Path(Top, "a", ExtPpt), Path(Top, "b", ExtPpt), Path(Sub, "c", ExtPpt)}
BatchUniverse == BatchInputs \cup {WithSuffixPptx(p) : p \in BatchInputs}
Unrelated == Path(Top, "n", ExtTxt)
BatchDirs == {s \cup {Unrelated} : s \in SUBSET BatchUniverse}

Platforms == {"Darwin", "Linux", "Windows", "Other"}
WorkerCounts == (0 - 1)..MaxWorkers

VARIABLES
    fs,                \* the set of paths that exist as files
    platform,          \* platform.system()
    dir_kind,          \* what directory_path is: "dir", "file" or "missing"
    args,              \* the arguments of convert_directory
    pc,                \* position of the orchestrator
    run,               \* number of the current convert_directory call
    fs0,               \* the filesystem when the current call started
    ppt_files,         \* the files discovered by glob
    would,             \* dry run: file -> reported action
    skipped,           \* local counter of convert_directory
    successful,        \* local counter of convert_directory
    failed,            \* local counter of convert_directory
    jobs,              \* submitted future: input -> its state
    backend_calls,     \* backend invocations of the current call
    summary,           \* the returned tuple, << >> before the return
    prev,              \* the summary of the previous call, << >> if none
    single,            \* a direct convert_single_file call
    proc               \* the process running main(): arguments, exit status

vars == <<fs, platform, dir_kind, args, pc, run, fs0, ppt_files, would,
          skipped, successful, failed, jobs, backend_calls, summary, prev,
          single, proc>>

\* --------------------------------------------------------- convert_directory
\* pattern = "**/*.ppt" if recursive else "*.ppt"; pathlib matches the
\* pattern case-insensitively on Windows only.
\* The pattern is matched against the whole name, so it also matches the
\* dot file ".ppt", whose Path.suffix is empty and whose stem is ".ppt".
DotPpt == ".ppt"

GlobMatch(p, recursive, plat) ==
    /\ \/ IF plat = "Windows" THEN Lower(p.ext) = ExtPpt ELSE p.ext = ExtPpt
       \/ p.ext = ExtNone /\ p.stem = DotPpt
    /\ recursive \/ p.dir = Top

Glob(fsys, recursive, plat) == {p \in fsys : GlobMatch(p, recursive, plat)}

\* Mutant: the flag is read the wrong way round.
SkipExisting_FlagInverted(out, fsys, replace) == out \in fsys /\ replace

\* "if output_file.exists() and not replace_existing"
SkipExisting(out, fsys, replace) == out \in fsys /\ ~replace

\* Mutant: a skipped file is dropped without "skipped += 1".
PrefilterStep_DropsSkipped(acc, ppt_file, fsys, a) ==
    LET output_file == WithSuffixPptx(ppt_file) IN
    IF SkipExisting(output_file, fsys, a.replace_existing)
    THEN acc
    ELSE IF a.dry_run
    THEN [acc EXCEPT !.would = @ \cup
            {<<ppt_file, IF output_file \in fsys THEN "replace" ELSE "convert">>}]
    ELSE [acc EXCEPT !.files_to_convert = @ \cup {ppt_file}]

\* Mutant: the dry-run branch is tested before the skip branch.
PrefilterStep_DryRunFirst(acc, ppt_file, fsys, a) ==
    LET output_file == WithSuffixPptx(ppt_file) IN
    IF a.dry_run
    THEN [acc EXCEPT !.would = @ \cup
            {<<ppt_file, IF output_file \in fsys THEN "replace" ELSE "convert">>}]
    ELSE IF SkipExisting(output_file, fsys, a.replace_existing)
    THEN [acc EXCEPT !.skipped = @ + 1]
    ELSE [acc EXCEPT !.files_to_convert = @ \cup {ppt_file}]

\* One iteration of the pre-filter loop on ppt_file, from accumulator acc.
PrefilterStep(acc, ppt_file, fsys, a) ==
    LET output_file == WithSuffixPptx(ppt_file) IN
    IF SkipExisting(output_file, fsys, a.replace_existing)
    THEN [acc EXCEPT !.skipped = @ + 1]
    ELSE IF a.dry_run
    THEN [acc EXCEPT !.would = @ \cup
            {<<ppt_file, IF output_file \in fsys THEN "replace" ELSE "convert">>}]
    ELSE [acc EXCEPT !.files_to_convert = @ \cup {ppt_file}]

\* The pre-filter loop over the discovered files, in some enumeration order.
RECURSIVE Prefilter(_, _, _, _)
Prefilter(files, acc, fsys, a) ==
    IF files = {} THEN acc
    ELSE LET ppt_file == CHOOSE f \in files : TRUE IN
         Prefilter(files \ {ppt_file}, PrefilterStep(acc, ppt_file, fsys, a),
                   fsys, a)

EmptyAcc == [files_to_convert |-> {}, skipped |-> 0, would |-> {}]

\* "if dry_run: return 0, 0, skipped"
DryRunReturns(a) == a.dry_run

\* ThreadPoolExecutor(max_workers=...) raises ValueError unless it is > 0.
PoolSizeOk(w) == w > 0

NewJob == [st |-> "queued", res |-> "none", runs |-> 0, calls |-> 0, counted |-> 0]

Return(s) ==
    /\ pc' = "returned"
    /\ summary' = s

\* convert_directory from its entry up to an early return, the failure to
\* create the pool, or the submission of every job.
ConvertDirectory ==
    /\ pc = "idle"
    /\ fs0' = fs
    /\ backend_calls' = 0
    /\ successful' = 0
    /\ failed' = 0
    /\ UNCHANGED <<fs, platform, dir_kind, args, run, prev, single, proc>>
    /\ IF dir_kind # "dir"
       THEN /\ Return(<<0, 0, 0>>)
            /\ ppt_files' = {}
            /\ skipped' = 0
            /\ would' = {}
            /\ jobs' = << >>
       ELSE LET found == Glob(fs, args.recursive, platform)
                acc == Prefilter(found, EmptyAcc, fs, args)
            IN
            /\ ppt_files' = found
            /\ IF found = {}
               THEN /\ Return(<<0, 0, 0>>)
                    /\ skipped' = 0
                    /\ would' = {}
                    /\ jobs' = << >>
               ELSE /\ skipped' = acc.skipped
                    /\ would' = acc.would
                    /\ IF DryRunReturns(args) \/ acc.files_to_convert = {}
                       THEN /\ Return(<<0, 0, acc.skipped>>)
                            /\ jobs' = << >>
                       ELSE IF ~PoolSizeOk(args.max_workers)
                       THEN /\ pc' = "raised"
                            /\ summary' = << >>
                            /\ jobs' = << >>
                       ELSE /\ pc' = "collect"
                            /\ summary' = << >>
                            /\ jobs' = [f \in acc.files_to_convert |-> NewJob]

\* ------------------------------------------------------- convert_single_file
\* "if not input_path.exists()"
InputMissing(input, fsys) == input \notin fsys

\* Mutant: the suffix is compared without lower().
SuffixRejected_CaseSensitive(input) == input.ext # ExtPpt

\* "if input_path.suffix.lower() != '.ppt'"
SuffixRejected(input) == Lower(input.ext) # ExtPpt

\* "if output_path is None: output_path = input_path.with_suffix('.pptx')"
ResolveOutput(input, output) ==
    IF output = NoPath THEN WithSuffixPptx(input) ELSE output

\* Mutant: the existing output blocks when replacing is allowed.
OutputBlocks_FlagInverted(out, replace, fsys) == out \in fsys /\ replace

\* Mutant: "and not replace_existing" is missing.
OutputBlocks_IgnoresFlag(out, replace, fsys) == out \in fsys

\* "if output_path.exists() and not replace_existing"
OutputBlocks(out, replace, fsys) == out \in fsys /\ ~replace

\* The backend chosen from platform.system(); "none" is the else branch.
BackendOf(plat) ==
    CASE plat = "Darwin" -> "libreoffice"
      [] plat = "Windows" -> "comtypes"
      [] plat = "Linux" -> "libreoffice"
      [] OTHER -> "none"

\* convert_single_file up to the backend call: the early return it takes
\* (by its message) with the output path of the returned tuple, or "Backend".
Precheck(input, output, replace, fsys, plat) ==
    IF InputMissing(input, fsys)
    THEN [res |-> "NotFound", out |-> NoPath]
    ELSE IF SuffixRejected(input)
    THEN [res |-> "NotPpt", out |-> NoPath]
    ELSE LET out == ResolveOutput(input, output) IN
         IF OutputBlocks(out, replace, fsys)
         THEN [res |-> "Exists", out |-> out]
         ELSE IF BackendOf(plat) = "none"
         THEN [res |-> "Unsupported", out |-> out]
         ELSE [res |-> "Backend", out |-> out]

\* What the backend function does: return True, return False, raise, or
\* return False once output_path has been written ("FalseAfterWrite":
\* presentation.Close() or powerpoint.Quit() raising after SaveAs, or
\* shutil.move failing after its copy to another filesystem).
BackendResults == {"True", "False", "raise", "FalseAfterWrite"}

\* convert_single_file's return after the backend call, by its message.
AfterBackend(r) ==
    CASE r = "True" -> "Converted"
      [] r = "False" -> "Failed"
      [] r = "FalseAfterWrite" -> "Failed"
      [] OTHER -> "Error"

\* success, the first element of the returned tuple.
Success(res) == res = "Converted"

\* Mutant: the converted file is never moved to output_path.
WriteOutput_NotMoved(fsys, out, r) == fsys

\* The output file is written by shutil.move of the temporary file or by
\* SaveAs: always before True is returned, and before some False returns.
WriteOutput(fsys, out, r) ==
    IF r \in {"True", "FalseAfterWrite"} THEN fsys \cup {out} ELSE fsys

\* subprocess.run(..., timeout=300) bounds the LibreOffice call; the
\* comtypes calls carry no timeout.
HasTimeout(backend) == backend = "libreoffice"

\* ----------------------------------------------------------- worker threads
Running == {f \in DOMAIN jobs : jobs[f].st \in {"backend", "hung"}}

\* Mutant: every submitted job gets a thread at once.
WorkerFree_Unbounded == TRUE

\* A pool thread is free to take the next queued job.
WorkerFree == Cardinality(Running) < args.max_workers

BatchFrame == UNCHANGED <<platform, dir_kind, args, run, fs0, ppt_files,
                          would, skipped, summary, prev, single, proc>>

\* A pool thread takes job f and runs convert_single_file up to its early
\* return or to the backend call.
WorkerStart(f) ==
    /\ pc = "collect"
    /\ jobs[f].st = "queued"
    /\ WorkerFree
    /\ LET pre == Precheck(f, WithSuffixPptx(f), args.replace_existing, fs,
                           platform) IN
       IF pre.res = "Backend"
       THEN /\ jobs' = [jobs EXCEPT ![f].st = "backend", ![f].runs = @ + 1,
                                    ![f].calls = @ + 1]
            /\ backend_calls' = backend_calls + 1
       ELSE /\ jobs' = [jobs EXCEPT ![f].st = "done", ![f].res = pre.res,
                                    ![f].runs = @ + 1]
            /\ UNCHANGED backend_calls
    /\ UNCHANGED <<fs, pc, successful, failed>>
    /\ BatchFrame

\* convert_single_file raises before its try block (Path.exists() lets an
\* OSError such as EACCES through): the future holds the exception.
WorkerRaise(f) ==
    /\ pc = "collect"
    /\ jobs[f].st = "queued"
    /\ WorkerFree
    /\ jobs' = [jobs EXCEPT ![f].st = "done", ![f].res = "Raised",
                            ![f].runs = @ + 1]
    /\ UNCHANGED <<fs, pc, successful, failed, backend_calls>>
    /\ BatchFrame

\* The backend call of job f ends with r.
BackendReturn(f, r) ==
    /\ pc = "collect"
    /\ jobs[f].st = "backend"
    /\ fs' = WriteOutput(fs, WithSuffixPptx(f), r)
    /\ jobs' = [jobs EXCEPT ![f].st = "done", ![f].res = AfterBackend(r)]
    /\ UNCHANGED <<pc, successful, failed, backend_calls>>
    /\ BatchFrame

\* The engine of job f stops responding: the call will not return by itself.
BackendHang(f) ==
    /\ pc = "collect"
    /\ jobs[f].st = "backend"
    /\ jobs' = [jobs EXCEPT ![f].st = "hung"]
    /\ UNCHANGED <<fs, pc, successful, failed, backend_calls>>
    /\ BatchFrame

\* subprocess.TimeoutExpired: convert_with_libreoffice returns False.
Timeout(f) ==
    /\ pc = "collect"
    /\ jobs[f].st = "hung"
    /\ HasTimeout(BackendOf(platform))
    /\ jobs' = [jobs EXCEPT ![f].st = "done", ![f].res = AfterBackend("False")]
    /\ UNCHANGED <<fs, pc, successful, failed, backend_calls>>
    /\ BatchFrame

\* ------------------------------------------------- the as_completed loop
\* The counter a finished future adds to: future.result() re-raises the
\* job's exception, which the except branch counts as failed.
CountsAsSuccess(res) == res # "Raised" /\ Success(res)

\* Mutant: "failed += 1" also runs after a successful result.
Collect_AlsoCountsFailed(f) ==
    /\ pc = "collect"
    /\ jobs[f].st = "done"
    /\ jobs' = [jobs EXCEPT ![f].st = "counted", ![f].counted = @ + 1]
    /\ IF CountsAsSuccess(jobs[f].res)
       THEN successful' = successful + 1 /\ failed' = failed + 1
       ELSE failed' = failed + 1 /\ UNCHANGED successful
    /\ UNCHANGED <<fs, pc, backend_calls>>
    /\ BatchFrame

\* Mutant: no try/except around future.result(): the job's exception leaves
\* the loop and the call.
Collect_NoExcept(f) ==
    /\ pc = "collect"
    /\ jobs[f].st = "done"
    /\ IF jobs[f].res = "Raised"
       THEN /\ pc' = "raised"
            /\ UNCHANGED <<jobs, successful, failed>>
       ELSE /\ pc' = pc
            /\ jobs' = [jobs EXCEPT ![f].st = "counted", ![f].counted = @ + 1]
            /\ IF Success(jobs[f].res)
               THEN successful' = successful + 1 /\ UNCHANGED failed
               ELSE failed' = failed + 1 /\ UNCHANGED successful
    /\ UNCHANGED <<fs, backend_calls>>
    /\ BatchFrame

\* One iteration of "for future in as_completed(...)" on job f.
Collect(f) ==
    /\ pc = "collect"
    /\ jobs[f].st = "done"
    /\ jobs' = [jobs EXCEPT ![f].st = "counted", ![f].counted = @ + 1]
    /\ IF CountsAsSuccess(jobs[f].res)
       THEN successful' = successful + 1 /\ UNCHANGED failed
       ELSE failed' = failed + 1 /\ UNCHANGED successful
    /\ UNCHANGED <<fs, pc, backend_calls>>
    /\ BatchFrame

\* Mutant: the call returns after the first collected future.
Finish_AfterFirst ==
    /\ pc = "collect"
    /\ \E f \in DOMAIN jobs : jobs[f].st = "counted"
    /\ Return(<<successful, failed, skipped>>)
    /\ UNCHANGED <<fs, platform, dir_kind, args, run, fs0, ppt_files, would,
                   skipped, successful, failed, jobs, backend_calls, prev,
                   single, proc>>

\* Every future has been yielded: the pool shuts down and the call returns.
Finish ==
    /\ pc = "collect"
    /\ \A f \in DOMAIN jobs : jobs[f].st = "counted"
    /\ Return(<<successful, failed, skipped>>)
    /\ UNCHANGED <<fs, platform, dir_kind, args, run, fs0, ppt_files, would,
                   skipped, successful, failed, jobs, backend_calls, prev,
                   single, proc>>

\* The caller runs the same batch again on the same directory.
Again ==
    /\ pc = "returned"
    /\ run < MaxRuns
    /\ pc' = "idle"
    /\ run' = run + 1
    /\ prev' = summary
    /\ summary' = << >>
    /\ ppt_files' = {}
    /\ would' = {}
    /\ skipped' = 0
    /\ successful' = 0
    /\ failed' = 0
    /\ jobs' = << >>
    /\ backend_calls' = 0
    /\ UNCHANGED <<fs, fs0, platform, dir_kind, args, single, proc>>

NoSingle == [st |-> "none"]

\* main() is not running: the function is called directly.
NoProc == [st |-> "off"]

Args == [recursive : BOOLEAN, dry_run : BOOLEAN, max_workers : WorkerCounts,
         replace_existing : BOOLEAN]

\* The state before convert_directory is called on a given filesystem.
InitCall ==
    /\ platform \in Platforms
    /\ args \in Args
    /\ pc = "idle"
    /\ run = 1
    /\ fs0 = fs
    /\ ppt_files = {}
    /\ would = {}
    /\ skipped = 0
    /\ successful = 0
    /\ failed = 0
    /\ jobs = << >>
    /\ backend_calls = 0
    /\ summary = << >>
    /\ prev = << >>
    /\ single = NoSingle
    /\ proc = NoProc

Init ==
    /\ dir_kind \in {"dir", "file", "missing"}
    /\ fs \in IF dir_kind = "dir" THEN BatchDirs ELSE {{}}
    /\ InitCall

Next ==
    \/ ConvertDirectory
    \/ \E f \in DOMAIN jobs : WorkerStart(f)
    \/ \E f \in DOMAIN jobs : WorkerRaise(f)
    \/ \E f \in DOMAIN jobs : \E r \in BackendResults : BackendReturn(f, r)
    \/ \E f \in DOMAIN jobs : BackendHang(f)
    \/ \E f \in DOMAIN jobs : Timeout(f)
    \/ \E f \in DOMAIN jobs : Collect(f)
    \/ Finish
    \/ Again

Spec == Init /\ [][Next]_vars

\* The spec example directory, no output converted yet, a live batch.
InitFair ==
    /\ Init
    /\ dir_kind = "dir"
    /\ fs = BatchInputs \cup {Unrelated}
    /\ ~args.dry_run
    /\ args.max_workers >= 1

\* The pool threads, the orchestrator and the subprocess timer all keep
\* running; an engine that hangs and a caller that calls again are free.
Fairness ==
    /\ WF_vars(ConvertDirectory)
    /\ WF_vars(\E f \in DOMAIN jobs : WorkerStart(f) \/ WorkerRaise(f))
    /\ WF_vars(\E f \in DOMAIN jobs : \E r \in BackendResults :
                   BackendReturn(f, r))
    /\ WF_vars(\E f \in DOMAIN jobs : Timeout(f))
    /\ WF_vars(\E f \in DOMAIN jobs : Collect(f))
    /\ WF_vars(Finish)

FairSpec == InitFair /\ [][Next]_vars /\ Fairness

\* A directory that also holds a file named in upper case.
DiscoverUniverse ==
    {Path(Top, "a", ExtPpt), Path(Top, "b", ExtPptUpper),
     Path(Sub, "c", ExtPpt), Path(Sub, "c", ExtPptx)}

InitDiscover ==
    /\ dir_kind = "dir"
    /\ fs \in {s \cup {Unrelated} : s \in SUBSET DiscoverUniverse}
    /\ InitCall
    /\ args.replace_existing
    /\ args.max_workers >= 1

SpecDiscover == InitDiscover /\ [][Next]_vars

\* Another process creates the output file of a job that is still queued.
ExternalCreate(f) ==
    /\ pc = "collect"
    /\ jobs[f].st = "queued"
    /\ WithSuffixPptx(f) \notin fs
    /\ fs' = fs \cup {WithSuffixPptx(f)}
    /\ UNCHANGED <<pc, successful, failed, jobs, backend_calls>>
    /\ BatchFrame

\* The spec example directory, a live batch that skips existing outputs.
InitRace ==
    /\ InitFair
    /\ ~args.replace_existing

NextRace ==
    \/ Next
    \/ \E f \in DOMAIN jobs : ExternalCreate(f)

SpecRace == InitRace /\ [][NextRace]_vars

\* A directory whose names collide once the suffix is replaced: two files
\* that differ in the case of the suffix only (a case-sensitive directory,
\* which NTFS and network shares allow on Windows too), and the dot file
\* ".ppt" next to ".ppt.ppt".
CollideUniverse ==
    {Path(Top, "a", ExtPpt), Path(Top, "a", ExtPptUpper),
     Path(Top, DotPpt, ExtNone), Path(Top, DotPpt, ExtPpt)}

InitCollide ==
    /\ dir_kind = "dir"
    /\ fs \in {s \cup {Unrelated} : s \in SUBSET CollideUniverse}
    /\ InitCall
    /\ ~args.dry_run
    /\ ~args.recursive
    /\ args.replace_existing
    /\ args.max_workers >= 1

SpecCollide == InitCollide /\ [][Next]_vars

\* ------------------------------------- a direct call of convert_single_file
SingleInputs ==
    {Path(Top, "a", e) : e \in {ExtPpt, ExtPptUpper, ExtPptMixed, ExtPptx,
                                ExtPptxUpper, ExtTxt, ExtNone}}

\* An explicit output_path argument.
ExplicitOutput == Path(Top, "o", ExtPptx)

SingleFrame == UNCHANGED <<platform, dir_kind, args, pc, run, fs0, ppt_files,
                           would, skipped, successful, failed, jobs,
                           backend_calls, summary, prev, proc>>

\* The returned tuple (success, input_path, output_path, message).
SingleReturn(ok, out, msg, r) ==
    single' = [single EXCEPT !.st = "returned", !.success = ok, !.out = out,
                             !.msg = msg, !.backend = r]

\* convert_single_file from its entry to an early return or the backend call.
SingleCall ==
    /\ single.st = "idle"
    /\ LET pre == Precheck(single.input, single.output, single.replace, fs,
                           platform) IN
       IF pre.res = "Backend"
       THEN single' = [single EXCEPT !.st = "backend", !.out = pre.out,
                                     !.calls = @ + 1]
       ELSE SingleReturn(FALSE, pre.out, pre.res, "none")
    /\ UNCHANGED fs
    /\ SingleFrame

\* Path.exists() raises before the try block: the caller gets the exception.
SingleRaise ==
    /\ single.st = "idle"
    /\ single' = [single EXCEPT !.st = "raised"]
    /\ UNCHANGED fs
    /\ SingleFrame

\* Mutant: no try/except around the backend call.
SingleBackendReturn_NoExcept(r) ==
    /\ single.st = "backend"
    /\ fs' = WriteOutput(fs, single.out, r)
    /\ IF r = "raise"
       THEN single' = [single EXCEPT !.st = "raised", !.backend = r]
       ELSE SingleReturn(Success(AfterBackend(r)), single.out,
                         AfterBackend(r), r)
    /\ SingleFrame

\* The backend call ends with r.
SingleBackendReturn(r) ==
    /\ single.st = "backend"
    /\ fs' = WriteOutput(fs, single.out, r)
    /\ SingleReturn(Success(AfterBackend(r)), single.out, AfterBackend(r), r)
    /\ SingleFrame

\* The engine stops responding.
SingleHang ==
    /\ single.st = "backend"
    /\ single' = [single EXCEPT !.st = "hung"]
    /\ UNCHANGED fs
    /\ SingleFrame

\* subprocess.TimeoutExpired: convert_with_libreoffice returns False.
SingleTimeout ==
    /\ single.st = "hung"
    /\ HasTimeout(BackendOf(platform))
    /\ SingleReturn(FALSE, single.out, AfterBackend("False"), "timeout")
    /\ UNCHANGED fs
    /\ SingleFrame

InitSingle ==
    /\ single \in [st : {"idle"}, input : SingleInputs,
                   output : {NoPath, ExplicitOutput}, replace : BOOLEAN,
                   calls : {0}, success : {FALSE}, out : {NoPath},
                   msg : {"none"}, backend : {"none"}]
    /\ fs \in SUBSET {single.input, ResolveOutput(single.input, single.output)}
    /\ platform \in Platforms
    /\ dir_kind = "file"
    /\ args \in [recursive : {FALSE}, dry_run : {FALSE}, max_workers : {1},
                 replace_existing : {TRUE}]
    /\ pc = "direct"
    /\ run = 1
    /\ fs0 = fs
    /\ ppt_files = {}
    /\ would = {}
    /\ skipped = 0
    /\ successful = 0
    /\ failed = 0
    /\ jobs = << >>
    /\ backend_calls = 0
    /\ summary = << >>
    /\ prev = << >>
    /\ proc = NoProc

NextSingle ==
    \/ SingleCall
    \/ SingleRaise
    \/ \E r \in BackendResults : SingleBackendReturn(r)
    \/ SingleHang
    \/ SingleTimeout

SpecSingle == InitSingle /\ [][NextSingle]_vars

\* ------------------------------------------------------------------ main()
\* What the process has not yet: an exit status.
NoExit == 0 - 1

\* What args.path names: nothing given, nothing there, a file, a directory,
\* or something that is neither a file nor a directory.
PathKinds == {"none", "missing", "file", "dir", "other"}

\* The parts of the conversion engine a machine can have installed.
Installs(plat) ==
    IF plat \in {"Darwin", "Linux"} THEN SUBSET {"soffice"}
    ELSE IF plat = "Windows" THEN SUBSET {"comtypes", "powerpoint"}
    ELSE {{}}

\* find_libreoffice: the path of soffice, None, or (on Linux, where the
\* mdfind command does not exist) the FileNotFoundError of subprocess.run.
FindLibreoffice(plat, installed) ==
    IF "soffice" \in installed THEN "found"
    ELSE IF plat = "Darwin" THEN "None"
    ELSE "raise"

\* check_dependencies: "True", "False", or the exception it lets through.
CheckDependencies(plat, installed) ==
    IF plat \in {"Darwin", "Linux"}
    THEN CASE FindLibreoffice(plat, installed) = "found" -> "True"
           [] FindLibreoffice(plat, installed) = "None" -> "False"
           [] OTHER -> "raise"
    ELSE IF plat = "Windows"
    THEN IF "comtypes" \in installed THEN "True" ELSE "False"
    ELSE "False"

\* The engine the backend function drives is there: soffice for
\* convert_with_libreoffice; comtypes and the PowerPoint application that
\* CreateObject starts for convert_with_comtypes.
EngineInstalled(plat, installed) ==
    IF plat \in {"Darwin", "Linux"} THEN "soffice" \in installed
    ELSE IF plat = "Windows" THEN {"comtypes", "powerpoint"} \subseteq installed
    ELSE FALSE

\* What the backend function can do on this machine: without the engine it
\* returns False before it opens the input.
EngineResults ==
    IF EngineInstalled(platform, proc.installed) THEN BackendResults
    ELSE {"False"}

\* convert_ppt_to_pptx asks before it overwrites; any answer but "y" makes
\* it return False.
PromptDeclines(out, fsys, overwrite) == out \in fsys /\ ~overwrite

\* Mutant: directory mode always exits with 0.
DirExitCode_AlwaysZero(s) == 0

\* sys.exit(0 if failed == 0 else 1)
DirExitCode(s) == IF s[2] = 0 THEN 0 ELSE 1

Exit(code) == proc' = [proc EXCEPT !.st = "exited", !.exit_code = code]

MainFrame == UNCHANGED <<fs, platform, dir_kind, args, run, fs0, ppt_files,
                         would, skipped, successful, failed, jobs,
                         backend_calls, summary, prev>>

\* main() from parse_args to an exit or to the call of convert_directory or
\* convert_single_file.
MainStart ==
    /\ proc.st = "start"
    /\ MainFrame
    /\ LET deps == CheckDependencies(platform, proc.installed) IN
       IF proc.check_deps
       THEN /\ Exit(IF deps = "True" THEN 0 ELSE 1)
            /\ UNCHANGED <<pc, single>>
       ELSE IF proc.path = "none"
       THEN /\ Exit(2)
            /\ UNCHANGED <<pc, single>>
       ELSE IF deps # "True"
       THEN /\ Exit(1)
            /\ UNCHANGED <<pc, single>>
       ELSE IF proc.path = "missing"
       THEN /\ Exit(1)
            /\ UNCHANGED <<pc, single>>
       ELSE IF proc.path = "file"
       THEN IF SuffixRejected(single.input)
            THEN /\ Exit(1)
                 /\ UNCHANGED <<pc, single>>
            ELSE IF args.dry_run
            THEN /\ Exit(0)
                 /\ UNCHANGED <<pc, single>>
            ELSE IF PromptDeclines(ResolveOutput(single.input, single.output),
                                   fs, proc.overwrite)
            THEN /\ Exit(1)
                 /\ UNCHANGED <<pc, single>>
            ELSE /\ proc' = [proc EXCEPT !.st = "file"]
                 /\ single' = [single EXCEPT !.st = "idle"]
                 /\ UNCHANGED pc
       ELSE IF proc.path = "dir"
       THEN /\ proc' = [proc EXCEPT !.st = "dir"]
            /\ pc' = "idle"
            /\ UNCHANGED single
       ELSE /\ Exit(1)
            /\ UNCHANGED <<pc, single>>

\* convert_directory has returned its tuple, or let the ValueError of the
\* pool through, which ends the process with status 1.
MainDirExit ==
    /\ proc.st = "dir"
    /\ pc \in {"returned", "raised"}
    /\ Exit(IF pc = "raised" THEN 1 ELSE DirExitCode(summary))
    /\ UNCHANGED <<pc, single>>
    /\ MainFrame

\* convert_ppt_to_pptx has returned success, or let an exception through.
MainFileExit ==
    /\ proc.st = "file"
    /\ single.st \in {"returned", "raised"}
    /\ Exit(IF single.st = "returned" /\ single.success THEN 0 ELSE 1)
    /\ UNCHANGED <<pc, single>>
    /\ MainFrame

MainInputs == {Path(Top, "a", e) : e \in {ExtPpt, ExtPptUpper, ExtTxt}}

MainUniverse ==
    {Path(Top, "a", ExtPpt), Path(Top, "b", ExtPpt), Path(Top, "a", ExtPptx)}

InitMain ==
    /\ platform \in Platforms
    /\ proc \in [st : {"start"}, check_deps : BOOLEAN, path : PathKinds,
                 installed : Installs(platform), overwrite : BOOLEAN,
                 exit_code : {NoExit}]
    /\ proc.path # "file" => proc.overwrite
    /\ dir_kind = IF proc.path \in {"dir", "file"} THEN proc.path
                  ELSE "missing"
    /\ single \in IF proc.path = "file"
                  THEN [st : {"waiting"}, input : MainInputs,
                        output : {NoPath, ExplicitOutput}, replace : {TRUE},
                        calls : {0}, success : {FALSE}, out : {NoPath},
                        msg : {"none"}, backend : {"none"}]
                  ELSE {NoSingle}
    /\ fs \in IF proc.path = "dir"
              THEN {s \cup {Unrelated} : s \in SUBSET MainUniverse}
              ELSE IF proc.path = "file"
              THEN {{single.input} \cup s :
                       s \in SUBSET {ResolveOutput(single.input,
                                                   single.output)}}
              ELSE {{}}
    /\ args \in Args
    /\ proc.path # "dir" =>
           /\ ~args.recursive
           /\ args.replace_existing
           /\ args.max_workers = 1
    /\ pc = "main"
    /\ run = 1
    /\ fs0 = fs
    /\ ppt_files = {}
    /\ would = {}
    /\ skipped = 0
    /\ successful = 0
    /\ failed = 0
    /\ jobs = << >>
    /\ backend_calls = 0
    /\ summary = << >>
    /\ prev = << >>

NextMain ==
    \/ MainStart
    \/ ConvertDirectory
    \/ \E f \in DOMAIN jobs : WorkerStart(f)
    \/ \E f \in DOMAIN jobs : WorkerRaise(f)
    \/ \E f \in DOMAIN jobs : \E r \in EngineResults : BackendReturn(f, r)
    \/ \E f \in DOMAIN jobs :
           EngineInstalled(platform, proc.installed) /\ BackendHang(f)
    \/ \E f \in DOMAIN jobs : Timeout(f)
    \/ \E f \in DOMAIN jobs : Collect(f)
    \/ Finish
    \/ MainDirExit
    \/ SingleCall
    \/ SingleRaise
    \/ \E r \in EngineResults : SingleBackendReturn(r)
    \/ EngineInstalled(platform, proc.installed) /\ SingleHang
    \/ SingleTimeout
    \/ MainFileExit

SpecMain == InitMain /\ [][NextMain]_vars

\* ================================================================= claims
Live == ~args.dry_run

\* The discovered files whose output existed when the call pre-filtered
\* them while replace_existing was off.
Rejected ==
    {f \in ppt_files : WithSuffixPptx(f) \in fs0 /\ ~args.replace_existing}

SummarySum == summary[1] + summary[2] + summary[3]

CountedJobs == {f \in DOMAIN jobs : jobs[f].st = "counted"}

\* C1 (as stated): every returned summary, dry-run or live, has
\* successful + failed + skipped equal to the number of discovered files.
C1_SumEqualsDiscoveredInAnyMode ==
    pc = "returned" => SummarySum = Cardinality(ppt_files)

\* C1 (amended): every summary returned by a live-mode call has
\* successful + failed + skipped equal to the number of discovered files,
\* each discovered file being either pre-filtered into skipped or a job
\* counted once; a dry-run summary sums to the pre-filtered files only.
C1_LiveSumEqualsDiscovered ==
    pc = "returned" =>
        IF Live
        THEN /\ SummarySum = Cardinality(ppt_files)
             /\ CountedJobs = ppt_files \ Rejected
             /\ summary[3] = Cardinality(Rejected)
        ELSE SummarySum = Cardinality(Rejected)

C1_Witness ==
    /\ pc = "returned"
    /\ Live
    /\ summary[1] >= 1
    /\ summary[2] >= 1
    /\ summary[3] >= 1

\* C2: in live mode with max_workers >= 1 the jobs are exactly the files that
\* pass pre-filtering, convert_single_file runs at most once per job and
\* exactly once before the return, and at every moment successful and failed
\* hold exactly the jobs collected so far, each in the counter of its outcome.
C2_EachJobRunAndCountedOnce ==
    (Live /\ args.max_workers >= 1 /\ pc \in {"collect", "returned"}) =>
        /\ DOMAIN jobs = ppt_files \ Rejected
        /\ \A f \in DOMAIN jobs :
            /\ jobs[f].runs = (IF jobs[f].st = "queued" THEN 0 ELSE 1)
            /\ jobs[f].counted = (IF jobs[f].st = "counted" THEN 1 ELSE 0)
        /\ successful = Cardinality({f \in CountedJobs : Success(jobs[f].res)})
        /\ failed = Cardinality({f \in CountedJobs : ~Success(jobs[f].res)})
        /\ pc = "returned" =>
            /\ CountedJobs = DOMAIN jobs
            /\ summary[1] = successful
            /\ summary[2] = failed

C2_Witness ==
    /\ pc = "returned"
    /\ Live
    /\ args.max_workers = 2
    /\ Cardinality(DOMAIN jobs) = 3
    /\ summary[1] = 2
    /\ summary[2] = 1

\* C3: a dry run, whatever max_workers is, never calls the backend, submits
\* no job, leaves the filesystem as it was, and returns (0, 0, skipped) with
\* skipped the number of files rejected by pre-filtering.
C3_DryRunTouchesNothing ==
    args.dry_run =>
        /\ backend_calls = 0
        /\ jobs = << >>
        /\ fs = fs0
        /\ pc # "raised"
        /\ pc = "returned" => summary = <<0, 0, Cardinality(Rejected)>>

C3_Witness ==
    /\ args.dry_run
    /\ pc = "returned"
    /\ args.max_workers <= 0
    /\ would # {}
    /\ summary[3] >= 1

\* C4: with replace_existing off, a discovered file whose output exists at
\* pre-filter time is counted once in skipped and never becomes a job, so it
\* is neither submitted to the pool nor handed to the backend.
C4_ExistingOutputNeverAJob ==
    (~args.replace_existing /\ pc \in {"collect", "returned", "raised"}) =>
        /\ \A f \in ppt_files :
               WithSuffixPptx(f) \in fs0 => f \notin DOMAIN jobs
        /\ skipped = Cardinality({f \in ppt_files : WithSuffixPptx(f) \in fs0})
        /\ backend_calls <= Cardinality(ppt_files) - skipped

C4_Witness ==
    /\ ~args.replace_existing
    /\ Live
    /\ pc = "returned"
    /\ skipped = 2
    /\ \E f \in DOMAIN jobs : jobs[f].calls = 1

\* The outcome of job f is a failure: success = False, or an exception.
JobFailed(f) == ~CountsAsSuccess(jobs[f].res)

\* In this step job f, and no other, ends in a failure.
FailsNow(f) ==
    /\ f \in DOMAIN jobs /\ f \in DOMAIN jobs'
    /\ jobs[f].st \in {"queued", "backend", "hung"}
    /\ jobs'[f].st = "done"
    /\ jobs'[f].res # "Converted"

\* In this step the orchestrator obtains the failed result of job f.
CollectsFailure(f) ==
    /\ f \in DOMAIN jobs
    /\ jobs[f].st = "done"
    /\ jobs[f].res # "Converted"
    /\ f \in DOMAIN jobs'
    /\ jobs'[f] # jobs[f]

OthersUntouched(f) == \A g \in DOMAIN jobs \ {f} : jobs'[g] = jobs[g]

C5_Step ==
    /\ pc = "collect" => pc' \in {"collect", "returned"}
    /\ \A f \in BatchInputs :
            /\ FailsNow(f) =>
                /\ OthersUntouched(f)
                /\ pc' = "collect"
                /\ successful' = successful /\ failed' = failed
            /\ CollectsFailure(f) =>
                /\ DOMAIN jobs' = DOMAIN jobs
                /\ OthersUntouched(f)
                /\ jobs'[f].st = "counted"
                /\ pc' = "collect"
                /\ failed' = failed + 1
                /\ successful' = successful

C5_AllCountedByOwnOutcome ==
    /\ pc = "raised" => jobs = << >>
    /\ pc = "returned" =>
        /\ CountedJobs = DOMAIN jobs
        /\ summary[1] = Cardinality({f \in DOMAIN jobs : ~JobFailed(f)})
        /\ summary[2] = Cardinality({f \in DOMAIN jobs : JobFailed(f)})

\* C5: a job that fails, by returning success = False or by an exception
\* that future.result() re-raises, adds exactly one to failed and changes no
\* other job: the step in which it fails and the step in which it is counted
\* leave every other job, the loop and successful as they were, the call is
\* never abandoned with jobs submitted, and at the return every job has been
\* counted by its own outcome.
C5_FailureIsolation == [](C5_AllCountedByOwnOutcome) /\ [][C5_Step]_vars

C5_Witness ==
    /\ pc = "returned"
    /\ \E f, g, h \in DOMAIN jobs :
        /\ jobs[f].res = "Raised"
        /\ jobs[g].res = "Failed"
        /\ jobs[h].res = "Converted"
    /\ summary = <<1, 2, 0>>

\* C6: a job whose backend call never returns by itself is eventually forced
\* to end as a failure, on the LibreOffice and on the Windows backend alike,
\* and the batch call eventually returns its summary.
C6_HungJobEventuallyFails ==
    \A f \in BatchInputs :
        /\ (f \in DOMAIN jobs /\ jobs[f].st = "hung")
               ~> (f \in DOMAIN jobs /\ jobs[f].st = "counted" /\ JobFailed(f))
        /\ (f \in DOMAIN jobs /\ jobs[f].st = "hung") ~> (pc = "returned")

\* C7: a live call with max_workers <= 0 never returns a normal summary.
C7_NonPositiveWorkersNeverReturn ==
    (Live /\ args.max_workers <= 0) => pc # "returned"

BackendAlwaysSucceeded ==
    /\ BackendOf(platform) # "none"
    /\ \A f \in DOMAIN jobs : jobs[f].res \notin {"Failed", "Error", "Raised"}

LegacyExts == {ExtPpt, ExtPptUpper, ExtPptMixed}

InvalidInput == single.input \notin fs0 \/ single.input.ext \notin LegacyExts

\* C10: convert_single_file on an input that does not exist or whose suffix
\* is not '.ppt' in any letter case never calls the backend and returns
\* success = False with output path None; an existing input with suffix
\* '.ppt' in any letter case is not rejected by these two checks.
C10_InvalidInputRejected ==
    /\ InvalidInput =>
        /\ single.calls = 0
        /\ single.st \notin {"backend", "hung"}
        /\ fs = fs0
        /\ single.st = "returned" =>
            /\ ~single.success
            /\ single.out = NoPath
            /\ single.msg \in {"NotFound", "NotPpt"}
    /\ (~InvalidInput /\ single.st = "returned") =>
            single.msg \notin {"NotFound", "NotPpt"}

C10_Witness ==
    /\ single.st = "returned"
    /\ single.input \in fs0
    /\ single.input.ext = ExtPptxUpper
    /\ single.msg = "NotPpt"
    /\ single.out = NoPath

ValidInput == ~InvalidInput

ResolvedExists == ResolveOutput(single.input, single.output) \in fs0

\* C11 (as stated): on a valid input whose output exists, replace off
\* returns success = False "already exists" without a backend call, and
\* replace on proceeds to exactly one backend call.
C11_OverwriteAlwaysCallsBackend ==
    (single.st = "returned" /\ ValidInput /\ ResolvedExists) =>
        IF ~single.replace
        THEN ~single.success /\ single.msg = "Exists" /\ single.calls = 0
        ELSE single.calls = 1

\* C11 (amended): as stated on a platform that has a backend (Darwin, Linux,
\* Windows); on any other platform replace on returns success = False
\* "unsupported platform" without a backend call.
C11_OverwritePolicy ==
    /\ single.st # "none" => single.calls <= 1
    /\ (single.st = "returned" /\ ValidInput /\ ResolvedExists) =>
        IF ~single.replace
        THEN /\ ~single.success
             /\ single.msg = "Exists"
             /\ single.calls = 0
             /\ single.out = ResolveOutput(single.input, single.output)
             /\ fs = fs0
        ELSE IF BackendOf(platform) = "none"
        THEN /\ ~single.success
             /\ single.msg = "Unsupported"
             /\ single.calls = 0
        ELSE single.calls = 1

C11_Witness ==
    /\ single.st = "returned"
    /\ ValidInput
    /\ ResolvedExists
    /\ ~single.replace
    /\ single.msg = "Exists"
    /\ single.output = ExplicitOutput

\* C14: in a live call with max_workers = W >= 1, at most W jobs are inside
\* convert_single_file, hence inside the backend, at any moment.
C14_AtMostWRunning ==
    (Live /\ args.max_workers >= 1) =>
        Cardinality(Running) <= args.max_workers

C14_Witness ==
    /\ pc = "collect"
    /\ args.max_workers = 2
    /\ Cardinality(Running) = 2
    /\ \E f \in DOMAIN jobs : jobs[f].st = "queued"

C15_NothingPendingAtReturn ==
    pc = "returned" =>
        /\ \A f \in DOMAIN jobs : jobs[f].st = "counted"
        /\ Running = {}
        /\ summary = <<successful, failed, skipped>>

C15_StableAfterReturn ==
    (pc = "returned" /\ pc' = "returned") =>
        /\ summary' = summary
        /\ successful' = successful
        /\ failed' = failed
        /\ skipped' = skipped
        /\ jobs' = jobs

\* C15: convert_directory returns only when every submitted job has finished
\* and been counted: at the return no job is queued or running, the summary
\* is the three counters, and they do not change while the call stays
\* returned.
C15_ReturnsAfterAllJobs ==
    [](C15_NothingPendingAtReturn) /\ [][C15_StableAfterReturn]_vars

C15_Witness ==
    /\ pc = "returned"
    /\ Cardinality(DOMAIN jobs) = 3
    /\ args.max_workers = 1
    /\ summary[1] + summary[2] = 3

\* C20: for the same filesystem, recursive flag and replace_existing flag,
\* a dry run and a live run (one whose pool is created) report the same
\* skipped count, the number of rejected files, and the files the dry run
\* reports as "would convert" or "would replace" are the files the live run
\* submits as jobs: both are the discovered files that are not rejected.
C20_DryRunMatchesLive ==
    (pc \in {"collect", "returned"}) =>
        /\ skipped = Cardinality(Rejected)
        /\ IF args.dry_run
           THEN /\ {w[1] : w \in would} = ppt_files \ Rejected
                /\ \A w \in would :
                       w[2] = (IF WithSuffixPptx(w[1]) \in fs0
                               THEN "replace" ELSE "convert")
           ELSE args.max_workers >= 1 => DOMAIN jobs = ppt_files \ Rejected

C20_Witness ==
    /\ pc = "returned"
    /\ args.dry_run
    /\ skipped = 1
    /\ Cardinality(would) = 2
    /\ args.max_workers <= 0

\* C16: every backend error of a call (False returned, an exception raised,
\* a timeout) ends in a returned tuple with success = False; an exception
\* leaves convert_single_file only before the backend has been called.
C16_BackendErrorsBecomeOutcomes ==
    /\ single.st = "raised" => (single.calls = 0 /\ single.backend = "none")
    /\ single.backend \in {"False", "FalseAfterWrite", "raise", "timeout"} =>
        /\ single.st = "returned"
        /\ ~single.success
        /\ single.msg \in {"Failed", "Error"}
        /\ single.calls = 1

C16_Witness ==
    /\ single.st = "returned"
    /\ single.backend = "raise"
    /\ single.msg = "Error"
    /\ ~single.success

\* C17: a call that returns success = False leaves the filesystem, and so
\* its output path, as it was when the call started.
C17_FailureLeavesOutputUntouched ==
    (single.st = "returned" /\ ~single.success) => fs = fs0

\* The files with the legacy suffix, in any letter case, that the search
\* covers: the direct children, or with recursive every depth.
LegacyFiles ==
    {p \in fs0 : p.ext \in LegacyExts /\ (args.recursive \/ p.dir = Top)}

\* C12: discovery returns exactly the files with the legacy suffix that are
\* direct children of the directory, or with recursive at any depth, and
\* with replace_existing on and a backend that always succeeds the summary
\* is (number of such files, 0, 0).
C12_DiscoversLegacyFiles ==
    (dir_kind = "dir" /\ pc \in {"collect", "returned", "raised"}) =>
        /\ ppt_files = LegacyFiles
        /\ (/\ pc = "returned"
            /\ Live
            /\ args.replace_existing
            /\ BackendAlwaysSucceeded) =>
               summary = <<Cardinality(LegacyFiles), 0, 0>>

\* The jobs counted so far that ended in a hard error: neither converted nor
\* found to exist already.
HardFailures ==
    {f \in CountedJobs : jobs[f].res \notin {"Converted", "Exists"}}

\* C18: a job that finds its output already there with replace_existing off
\* is a skip: failed counts the hard errors only, so such a job alone does
\* not make the exit status non-zero.
C18_AlreadyExistsIsNotAFailure ==
    pc \in {"collect", "returned"} => failed = Cardinality(HardFailures)

\* main() has ended the process.
Exited == proc.st = "exited"

\* A job ended without success: a counted job of the batch, or the call of
\* single-file mode.
SomeJobFailed ==
    \/ \E f \in CountedJobs : JobFailed(f)
    \/ single.st = "raised"
    \/ single.st = "returned" /\ ~single.success

\* Every job of the run ended with success, and there was a run.
EveryJobSucceeded ==
    \/ pc = "returned" /\ \A f \in DOMAIN jobs : ~JobFailed(f)
    \/ single.st = "returned" /\ single.success

\* The invocation is rejected: no path, a path that is not there or is
\* neither file nor directory, a file without the legacy suffix, or a worker
\* count the pool refuses.
UsageError ==
    /\ ~proc.check_deps
    /\ \/ proc.path \in {"none", "missing", "other"}
       \/ proc.path = "file" /\ SuffixRejected(single.input)
       \/ pc = "raised"

\* check_dependencies did not return True.
DependencyError == CheckDependencies(platform, proc.installed) # "True"

C19_UnavailableBackendAbortsFirst ==
    (proc.st # "off" /\ ~EngineInstalled(platform, proc.installed)) =>
        /\ pc = "main"
        /\ jobs = << >>
        /\ backend_calls = 0
        /\ single.st \in {"none", "waiting"}
        /\ Exited => proc.exit_code # 0

\* C21: in a live batch two distinct jobs never have the same output path,
\* so no two workers are ever in the backend writing the same output file.
C21_DistinctJobsDistinctOutputs ==
    (Live /\ pc \in {"collect", "returned"}) =>
        \A f, g \in DOMAIN jobs : f # g => WithSuffixPptx(f) # WithSuffixPptx(g)

====
